---- MODULE Spec2Model ----
(***************************************************************************)
(* The RPN calculators of this repository:                                 *)
(*   rpn.py              calculate(myarg), integer literals and + - * /    *)
(*   rpn_kitchen_sink.py Calculator / IntegerCalculator (lookup,           *)
(*                       calculate) and the session loop main()            *)
(*                                                                         *)
(* Text is modelled as sequences of one-character strings, so that         *)
(* str.split, int() and float() are computed and not assumed.  Numbers are *)
(* exact rationals n/d tagged with their Python type; a step whose result  *)
(* is not representable within MaxAbs (or is irrational) is not taken.     *)
(***************************************************************************)
EXTENDS Integers, Sequences, FiniteSets, TLC

\* ------------------------------------------------------------------ bounds
\* Longest expression, in tokens, handed to one calculate call (SpecCalc).
MaxTokens == 3
\* Longest input line, in tokens, of a session (Spec).
MaxLineTokens == 3
\* Number of lines a session evaluates.
MaxCalls == 2
\* Largest numerator magnitude and denominator of a number the model tracks.
MaxAbs == 32

\* ------------------------------------------------------------------ text
Digits == <<"0", "1", "2", "3", "4", "5", "6", "7", "8", "9">>

IsDigit(c) == \E i \in 1..10 : Digits[i] = c

DigitVal(c) == (CHOOSE i \in 1..10 : Digits[i] = c) - 1

IsSpace(c) == c = " "

\* The tokens expressions are built from.
Vocabulary ==
    { <<"4">>, <<"2">>, <<"0">>, <<"-", "3">>, <<"3", ".", "5">>,
      <<"+">>, <<"-">>, <<"*">>, <<"/">>, <<".">>,
      <<"s", "q", "r", "t">>, <<"f", "m", "o", "d">>, <<"f", "a", "b", "s">>,
      <<"p", "i">>, <<"f", "o", "o">> }

\* The tokens a session's input lines are built from.
SessionVocabulary ==
    { <<"4">>, <<"0">>, <<"-">>, <<"/">>, <<".">>,
      <<"s", "q", "r", "t">>, <<"f", "o", "o">> }

RECURSIVE Join(_)
Join(ts) ==
    IF ts = <<>> THEN <<>>
    ELSE IF Len(ts) = 1 THEN ts[1]
    ELSE ts[1] \o <<" ">> \o Join(Tail(ts))

TokenSeqs(V, n) == UNION { [1..k -> V] : k \in 0..n }

\* Expressions handed to calculate: every token sequence up to MaxTokens,
\* joined by single spaces (the empty string included), and a blank string.
Expressions == { Join(ts) : ts \in TokenSeqs(Vocabulary, MaxTokens) } \cup { <<" ">> }

\* Lines typed into a session: expressions, the empty line, a comment, quit,
\* a blank line.
SessionLines ==
    { Join(ts) : ts \in TokenSeqs(SessionVocabulary, MaxLineTokens) }
        \cup { <<"#", " ", "4">>, <<"q">>, <<" ">> }

\* str.split(): maximal runs of non-whitespace characters, in order.
RECURSIVE SplitFrom(_, _, _)
SplitFrom(s, i, cur) ==
    IF i > Len(s)
    THEN IF cur = <<>> THEN <<>> ELSE <<cur>>
    ELSE IF IsSpace(s[i])
         THEN IF cur = <<>> THEN SplitFrom(s, i + 1, <<>>)
              ELSE <<cur>> \o SplitFrom(s, i + 1, <<>>)
         ELSE SplitFrom(s, i + 1, Append(cur, s[i]))

split(s) == SplitFrom(s, 1, <<>>)

\* ------------------------------------------------------------------ numbers
Abs(x) == IF x < 0 THEN -x ELSE x

RECURSIVE GCD(_, _)
GCD(a, b) == IF b = 0 THEN a ELSE GCD(b, a % b)

\* The number n/d of Python type t, in lowest terms with d > 0.
Num(t, n, d) ==
    LET s == IF d < 0 THEN -1 ELSE 1
        g == GCD(Abs(n), Abs(d))
    IN  [t |-> t, n |-> (s * n) \div g, d |-> (s * d) \div g]

None == [t |-> "None", n |-> 0, d |-> 1]

Representable(v) == Abs(v.n) <= MaxAbs /\ v.d >= 1 /\ v.d <= MaxAbs

\* The type of an arithmetic result: int only when both operands are int.
Join2(a, b) == IF a.t = "int" /\ b.t = "int" THEN "int" ELSE "float"

NoExc == [type |-> "", msg |-> ""]

Exc(type, msg) == [type |-> type, msg |-> msg]

Ok(v) == [exc |-> NoExc, val |-> v]

Raise(type, msg) == [exc |-> Exc(type, msg), val |-> None]

\* -------------------------------------------------------- int() and float()
RECURSIVE DigitsVal(_, _)
DigitsVal(cs, acc) ==
    IF cs = <<>> THEN acc ELSE DigitsVal(Tail(cs), 10 * acc + DigitVal(cs[1]))

AllDigits(cs) == \A i \in 1..Len(cs) : IsDigit(cs[i])

HasSign(cs) == cs # <<>> /\ cs[1] \in {"+", "-"}

Unsigned(cs) == IF HasSign(cs) THEN Tail(cs) ELSE cs

SignOf(cs) == IF HasSign(cs) /\ cs[1] = "-" THEN -1 ELSE 1

\* int(token): an optional sign and one or more decimal digits.
IntParses(cs) == Unsigned(cs) # <<>> /\ AllDigits(Unsigned(cs))

IntValue(cs) == Num("int", SignOf(cs) * DigitsVal(Unsigned(cs), 0), 1)

PointAt(cs) == { i \in 1..Len(cs) : cs[i] = "." }

RECURSIVE Pow10(_)
Pow10(k) == IF k = 0 THEN 1 ELSE 10 * Pow10(k - 1)

\* float(token): an optional sign, digits with at most one decimal point and
\* at least one digit.  (Exponents, inf and nan need letters that no token
\* of the vocabularies spells.)
FloatParses(cs) ==
    LET u == Unsigned(cs)
        p == PointAt(u)
        ds == SelectSeq(u, LAMBDA c : c # ".")
    IN  /\ Cardinality(p) <= 1
        /\ ds # <<>>
        /\ AllDigits(ds)

FloatValue(cs) ==
    LET u == Unsigned(cs)
        p == PointAt(u)
        ds == SelectSeq(u, LAMBDA c : c # ".")
        frac == IF p = {} THEN 0 ELSE Len(u) - (CHOOSE i \in p : TRUE)
    IN  Num("float", SignOf(cs) * DigitsVal(ds, 0), Pow10(frac))

\* ------------------------------------------------------ the operator module
\* The attempt to track a value the model cannot represent.
Untracked == [t |-> "float", n |-> 0, d |-> 0]

add(x, y) == Ok(Num(Join2(x, y), x.n * y.d + y.n * x.d, x.d * y.d))

sub(x, y) == Ok(Num(Join2(x, y), x.n * y.d - y.n * x.d, x.d * y.d))

mul(x, y) == Ok(Num(Join2(x, y), x.n * y.n, x.d * y.d))

\* x / y: always a float; a zero divisor raises, for ints and floats alike.
truediv(x, y) ==
    IF y.n = 0 THEN Raise("ZeroDivisionError", "division by zero")
    ELSE Ok(Num("float", x.n * y.d, x.d * y.n))

\* The largest integer not above n/d, d # 0.
Floor(n, d) == IF d < 0 THEN (-n) \div (-d) ELSE n \div d

\* x // y: the floor of the quotient.
floordiv(x, y) ==
    IF y.n = 0 THEN Raise("ZeroDivisionError", "division by zero")
    ELSE Ok(Num(Join2(x, y), Floor(x.n * y.d, x.d * y.n), 1))

OperatorCall(name, x, y) ==
    CASE name = "add" -> add(x, y)
      [] name = "sub" -> sub(x, y)
      [] name = "mul" -> mul(x, y)
      [] name = "truediv" -> truediv(x, y)
      [] name = "floordiv" -> floordiv(x, y)

\* ---------------------------------------------------------- the math module
SQRT == <<"s", "q", "r", "t">>
FMOD == <<"f", "m", "o", "d">>
FABS == <<"f", "a", "b", "s">>
PI == <<"p", "i">>

\* The callables of math among the tokens, and its attributes that are plain
\* floats (they have no __name__).
MathFunctions == {SQRT, FMOD, FABS}

MathConstants == {PI}

IsSquare(n) == \E r \in 0..n : r * r = n

Root(n) == CHOOSE r \in 0..n : r * r = n

math_sqrt(x) ==
    IF x.n < 0 THEN Raise("ValueError", "math domain error")
    ELSE IF IsSquare(x.n) /\ IsSquare(x.d)
         THEN Ok(Num("float", Root(x.n), Root(x.d)))
         ELSE Ok(Untracked)

\* The quotient n/d rounded toward zero, d # 0.
Trunc(n, d) == IF (n < 0) # (d < 0) THEN -Floor(Abs(n), Abs(d)) ELSE Floor(Abs(n), Abs(d))

\* C's fmod: x - trunc(x/y) * y, with the sign of x.
math_fmod(x, y) ==
    IF y.n = 0 THEN Raise("ValueError", "math domain error")
    ELSE LET q == Trunc(x.n * y.d, x.d * y.n)
         IN  Ok(Num("float", x.n * y.d - q * y.n * x.d, x.d * y.d))

math_fabs(x) == Ok(Num("float", Abs(x.n), x.d))

\* fn(*args) for a function of math: each takes a fixed number of arguments.
MathCall(fn, a) ==
    CASE fn = SQRT ->
           IF Len(a) = 1 THEN math_sqrt(a[1])
           ELSE Raise("TypeError", "takes exactly one argument")
      [] fn = FABS ->
           IF Len(a) = 1 THEN math_fabs(a[1])
           ELSE Raise("TypeError", "takes exactly one argument")
      [] fn = FMOD ->
           IF Len(a) = 2 THEN math_fmod(a[1], a[2])
           ELSE Raise("TypeError", "expected 2 arguments")

\* fn.__name__ exists: builtin functions have it, floats such as math.pi do
\* not (the AttributeError is caught by lookup).
HasName(fn) == fn \in MathFunctions

OneArgNames ==
    { <<"c", "o", "s">>, <<"s", "i", "n">>, <<"t", "a", "n">>, <<"e", "x", "p">>, SQRT }

\* Mutant: every math function is taken to need two arguments.
get_math_arg_countAlwaysTwo(fn) == 2

\* The CPython definition (the file is Python 3 source; the PyPy branch needs
\* Python 2.7).
get_math_arg_count(fn) == IF fn \in OneArgNames THEN 1 ELSE 2

\* ------------------------------------------------- rpn_kitchen_sink: lookup
DOT == <<".">>

\* Calculator.__init__: self.OPERATORS.
FloatOperators ==
    (<<"+">> :> "add") @@ (<<"-">> :> "sub") @@ (<<"*">> :> "mul") @@ (<<"/">> :> "truediv")

\* IntegerCalculator.__init__: '/' becomes floor division.
IntegerOperators == [FloatOperators EXCEPT ![<<"/">>] = "floordiv"]

\* self.coerce_number(operand): float or int.
Coerces(coerce, operand) ==
    IF coerce = "int" THEN IntParses(operand) ELSE FloatParses(operand)

Coerced(coerce, operand) ==
    IF coerce = "int" THEN IntValue(operand) ELSE FloatValue(operand)

Resolved(kind, count, val, op, fn) ==
    [exc |-> NoExc, kind |-> kind, count |-> count, val |-> val, op |-> op, fn |-> fn]

Unresolved ==
    [exc |-> Exc("RuntimeError", "Invalid operand"), kind |-> "", count |-> 0,
     val |-> None, op |-> "", fn |-> <<>>]

\* Mutant: in integer mode a literal is read as a float and truncated.
lookupTruncating(operand, coerce, OPS) ==
    IF operand = DOT THEN Resolved("last", 0, None, "", <<>>)
    ELSE IF FloatParses(operand)
         THEN LET v == FloatValue(operand)
              IN  Resolved("number", 0,
                           IF coerce = "int" THEN Num("int", Trunc(v.n, v.d), 1) ELSE v,
                           "", <<>>)
    ELSE IF operand \in DOMAIN OPS
         THEN Resolved("operator", 2, None, OPS[operand], <<>>)
    ELSE IF operand \in MathFunctions \cup MathConstants /\ HasName(operand)
         THEN Resolved("math", get_math_arg_count(operand), None, "", operand)
    ELSE Unresolved

\* Calculator.lookup: (executable, arg_count) for one token, trying the last
\* result, a number, an operator and a math function in that order.
lookup(operand, coerce, OPS) ==
    IF operand = DOT THEN Resolved("last", 0, None, "", <<>>)
    ELSE IF Coerces(coerce, operand)
         THEN Resolved("number", 0, Coerced(coerce, operand), "", <<>>)
    ELSE IF operand \in DOMAIN OPS
         THEN Resolved("operator", 2, None, OPS[operand], <<>>)
    ELSE IF operand \in MathFunctions \cup MathConstants /\ HasName(operand)
         THEN Resolved("math", get_math_arg_count(operand), None, "", operand)
    ELSE Unresolved

\* fn(*args) for the executable lookup returned.
Call(r, a, self_last) ==
    CASE r.kind = "last" -> Ok(self_last)
      [] r.kind = "number" -> Ok(r.val)
      [] r.kind = "operator" -> OperatorCall(r.op, a[1], a[2])
      [] r.kind = "math" -> MathCall(r.fn, a)

\* stack.pop() count times: the values in the order popped, top first.
Popped(stk, count) == [i \in 1..count |-> stk[Len(stk) + 1 - i]]

\* Mutant: the operands are read but left on the stack.
RemainingPeeked(stk, count) == stk

\* The stack once count values are popped.
Remaining(stk, count) == SubSeq(stk, 1, Len(stk) - count)

\* Mutant: a missing operand is taken to be 0 instead of raising.
PopAndCallLenient(r, stk, self_last) ==
    LET short == IF Len(stk) < r.count THEN r.count - Len(stk) ELSE 0
        full == [i \in 1..short |-> Num("int", 0, 1)] \o stk
        c == Call(r, Popped(full, r.count), self_last)
    IN  IF c.exc # NoExc
        THEN [exc |-> c.exc, stack |-> Remaining(full, r.count), count |-> r.count]
        ELSE [exc |-> NoExc, stack |-> Append(Remaining(full, r.count), c.val),
              count |-> r.count]

\* stack.append(fn(*(stack.pop() for x in range(count)))): the pops run
\* first (an empty stack raises IndexError), then the call, then the push.
PopAndCall(r, stk, self_last) ==
    IF Len(stk) < r.count
    THEN [exc |-> Exc("IndexError", "pop from empty list"), stack |-> <<>>,
          count |-> r.count]
    ELSE LET c == Call(r, Popped(stk, r.count), self_last)
         IN  IF c.exc # NoExc
             THEN [exc |-> c.exc, stack |-> Remaining(stk, r.count), count |-> r.count]
             ELSE [exc |-> NoExc, stack |-> Append(Remaining(stk, r.count), c.val),
                   count |-> r.count]

\* Mutant: `.` repeats the value on top of the stack when there is one.
CalculateTokenDotTop(token, stk, self_last, coerce, OPS) ==
    LET r == lookup(token, coerce, OPS)
    IN  IF token = <<".">> /\ stk # <<>>
        THEN [exc |-> NoExc, stack |-> Append(stk, stk[Len(stk)]), count |-> 0]
        ELSE IF r.exc # NoExc THEN [exc |-> r.exc, stack |-> stk, count |-> 0]
        ELSE PopAndCall(r, stk, self_last)

\* One token of Calculator.calculate: lookup, then pop, call and push.  The
\* result is the exception raised (if any) and the stack as it is left.
CalculateToken(token, stk, self_last, coerce, OPS) ==
    LET r == lookup(token, coerce, OPS)
    IN  IF r.exc # NoExc THEN [exc |-> r.exc, stack |-> stk, count |-> 0]
        ELSE PopAndCall(r, stk, self_last)

\* Mutant: map resolves every remaining token before the first is applied.
CalculateIterationEager(ts, stk, self_last, coerce, OPS) ==
    LET bad == { i \in 1..Len(ts) : lookup(ts[i], coerce, OPS).exc # NoExc }
    IN  IF bad # {}
        THEN [step |-> [exc |-> Exc("RuntimeError", "Invalid operand"), stack |-> stk,
                        count |-> 0],
              resolved |-> CHOOSE i \in bad : \A j \in bad : i <= j]
        ELSE [step |-> CalculateToken(Head(ts), stk, self_last, coerce, OPS),
              resolved |-> Len(ts)]

\* One iteration of `for fn,count in map(self.lookup, expression.split())`:
\* map is lazy, so only the next token is resolved, and then applied.
\* resolved counts the tokens lookup was called on.
CalculateIteration(ts, stk, self_last, coerce, OPS) ==
    [step |-> CalculateToken(Head(ts), stk, self_last, coerce, OPS), resolved |-> 1]

\* Mutant: self.last is assigned before the stack size is checked.
CalculateEndAssignsFirst(stk, self_last) ==
    IF Len(stk) # 1
    THEN [exc |-> Exc("RuntimeError", "Malformed expression"), stack |-> stk,
          last |-> IF stk = <<>> THEN self_last ELSE stk[Len(stk)], ret |-> None]
    ELSE [exc |-> NoExc, stack |-> <<>>, last |-> stk[1], ret |-> stk[1]]

\* Mutant: only an empty stack is malformed; otherwise the top is returned.
CalculateEndTopOfMany(stk, self_last) ==
    IF Len(stk) < 1
    THEN [exc |-> Exc("RuntimeError", "Malformed expression"), stack |-> stk,
          last |-> self_last, ret |-> None]
    ELSE [exc |-> NoExc, stack |-> SubSeq(stk, 1, Len(stk) - 1),
          last |-> stk[Len(stk)], ret |-> stk[Len(stk)]]

\* The end of Calculator.calculate: exactly one value must be left; it becomes
\* self.last and the return value.
CalculateEnd(stk, self_last) ==
    IF Len(stk) # 1
    THEN [exc |-> Exc("RuntimeError", "Malformed expression"), stack |-> stk,
          last |-> self_last, ret |-> None]
    ELSE [exc |-> NoExc, stack |-> <<>>, last |-> stk[1], ret |-> stk[1]]

\* ------------------------------------------------------------------- rpn.py
operators ==
    (<<"+">> :> "add") @@ (<<"-">> :> "sub") @@ (<<"*">> :> "mul") @@ (<<"/">> :> "truediv")

\* Mutant: the operands are handed over in the order popped.
RpnTokenSwapped(token, stk) ==
    IF IntParses(token) THEN [exc |-> NoExc, stack |-> Append(stk, IntValue(token))]
    ELSE IF token \notin DOMAIN operators
         THEN [exc |-> Exc("KeyError", "token"), stack |-> stk]
    ELSE IF Len(stk) < 2
         THEN [exc |-> Exc("IndexError", "pop from empty list"), stack |-> <<>>]
    ELSE LET arg2 == stk[Len(stk)]
             arg1 == stk[Len(stk) - 1]
             c == OperatorCall(operators[token], arg2, arg1)
         IN  IF c.exc # NoExc THEN [exc |-> c.exc, stack |-> Remaining(stk, 2)]
             ELSE [exc |-> NoExc, stack |-> Append(Remaining(stk, 2), c.val)]

\* One token of rpn.calculate: an int literal is pushed; anything else is
\* looked up in operators and applied to arg1 (popped second) and arg2
\* (popped first).
RpnToken(token, stk) ==
    IF IntParses(token) THEN [exc |-> NoExc, stack |-> Append(stk, IntValue(token))]
    ELSE IF token \notin DOMAIN operators
         THEN [exc |-> Exc("KeyError", "token"), stack |-> stk]
    ELSE IF Len(stk) < 2
         THEN [exc |-> Exc("IndexError", "pop from empty list"), stack |-> <<>>]
    ELSE LET arg2 == stk[Len(stk)]
             arg1 == stk[Len(stk) - 1]
             c == OperatorCall(operators[token], arg1, arg2)
         IN  IF c.exc # NoExc THEN [exc |-> c.exc, stack |-> Remaining(stk, 2)]
             ELSE [exc |-> NoExc, stack |-> Append(Remaining(stk, 2), c.val)]

\* The end of rpn.calculate.
RpnEnd(stk) ==
    IF Len(stk) # 1
    THEN [exc |-> Exc("TypeError", "Too many parameters"), stack |-> stk, ret |-> None]
    ELSE [exc |-> NoExc, stack |-> <<>>, ret |-> stk[1]]

\* -------------------------------------------------------------------- state
VARIABLES
    prog,           \* "rpn" (rpn.py) or "sink" (rpn_kitchen_sink.py)
    args,           \* the command-line flags: disable_floats, show_intermediates
    last,           \* Calculator.last
    coerce_number,  \* Calculator.coerce_number: "float" or "int"
    OPERATORS,      \* Calculator.OPERATORS
    pc,             \* where control is: "input", "calc", "returned", "raised",
                    \* "recorded", "crashed", "exited"
    to_calculate,   \* the line read, or the expression handed to calculate
    toks,           \* the tokens of the expression not yet consumed
    stack,          \* calculate's operand stack
    exc,            \* the exception in flight
    result,         \* what calculate returned
    printed,        \* what the running calculate call has printed
    ncalls,         \* lines evaluated so far
    entry_last,     \* history: self.last when the running call began
    last_returned,  \* history: what the last successful call returned (0: none)
    looked_up,      \* history: tokens taken up by the running call
    record,         \* the record file: the ordinals (ncalls) of the lines whose
                    \* two entries were appended, in file order
    written,        \* the two entries just appended to the record file, while
                    \* pc = "recorded"
    calculators,    \* the calculator objects constructed, in order of construction
    self            \* the calculator of the latest calculate call (0: none yet)

vars ==
    <<prog, args, last, coerce_number, OPERATORS, pc, to_calculate, toks, stack,
      exc, result, printed, ncalls, entry_last, last_returned, looked_up, record,
      written, calculators, self>>

Zero == Num("int", 0, 1)

\* main(): IntegerCalculator() if args.disable_floats else Calculator().
ConstructedCoerce(a) == IF a.disable_floats THEN "int" ELSE "float"

ConstructedOperators(a) == IF a.disable_floats THEN IntegerOperators ELSE FloatOperators

Flags == [disable_floats : BOOLEAN, show_intermediates : BOOLEAN]

\* Mutant: the operand stack outlives the call that made it.
EnterKeepsStack(expression) ==
    /\ to_calculate' = expression
    /\ toks' = split(expression)
    /\ stack' = stack
    /\ exc' = NoExc
    /\ result' = None
    /\ printed' = <<>>
    /\ looked_up' = 0
    /\ entry_last' = last
    /\ pc' = "calc"

\* Calculator.calculate(expression), entered: stack = [] and the token
\* iterator over expression.split().
Enter(expression) ==
    /\ to_calculate' = expression
    /\ toks' = split(expression)
    /\ stack' = <<>>
    /\ exc' = NoExc
    /\ result' = None
    /\ printed' = <<>>
    /\ looked_up' = 0
    /\ entry_last' = last
    /\ pc' = "calc"

\* ------------------------------------------------------------ the session
\* main() of rpn_kitchen_sink.py, one calculator, waiting at input().
Init ==
    /\ prog = "sink"
    /\ args \in Flags
    /\ last = Zero
    /\ coerce_number = ConstructedCoerce(args)
    /\ OPERATORS = ConstructedOperators(args)
    /\ pc = "input"
    /\ to_calculate = <<>>
    /\ toks = <<>>
    /\ stack = <<>>
    /\ exc = NoExc
    /\ result = None
    /\ printed = <<>>
    /\ ncalls = 0
    /\ entry_last = Zero
    /\ last_returned = Zero
    /\ looked_up = 0
    /\ record = <<>>
    /\ written = None
    /\ calculators = <<>>
    /\ self = 0

IsComment(l) == IF Len(l) = 0 THEN TRUE ELSE l[1] = "#"

IsQuit(l) == IF Len(l) = 0 THEN FALSE ELSE l[1] = "q"

\* A blank line or a comment: continue.
SkipLine ==
    /\ pc = "input"
    /\ \E l \in SessionLines : IsComment(l)
    /\ UNCHANGED vars

\* A line starting with q: break.
Quit ==
    /\ pc = "input"
    /\ \E l \in SessionLines :
          /\ ~IsComment(l)
          /\ IsQuit(l)
          /\ to_calculate' = l
    /\ pc' = "exited"
    /\ UNCHANGED <<calculators, self, record, written, prog, args, last, coerce_number, OPERATORS, toks, stack, exc,
                   result, printed, ncalls, entry_last, last_returned, looked_up>>

\* input() raises EOFError: break.
EndOfInput ==
    /\ pc = "input"
    /\ pc' = "exited"
    /\ UNCHANGED <<calculators, self, record, written, prog, args, last, coerce_number, OPERATORS, to_calculate, toks,
                   stack, exc, result, printed, ncalls, entry_last, last_returned,
                   looked_up>>

\* Any other line: answer = calculator.calculate(to_calculate).
Evaluate ==
    /\ pc = "input"
    /\ ncalls < MaxCalls
    /\ \E l \in SessionLines :
          /\ ~IsComment(l)
          /\ ~IsQuit(l)
          /\ Enter(l)
    /\ ncalls' = ncalls + 1
    /\ UNCHANGED <<calculators, self, record, written, prog, args, last, coerce_number, OPERATORS,
                   last_returned>>

\* Mutant: the loop never moves on from a token it has applied.
CalcStepRepeats ==
    /\ pc = "calc"
    /\ prog = "sink"
    /\ toks # <<>>
    /\ LET it == CalculateIteration(toks, stack, last, coerce_number, OPERATORS)
           o == it.step
       IN  /\ o.exc = NoExc => Representable(o.stack[Len(o.stack)])
           /\ looked_up' = looked_up + it.resolved
           /\ stack' = o.stack
           /\ exc' = o.exc
           /\ toks' = toks
           /\ pc' = IF o.exc = NoExc THEN "calc" ELSE "raised"
           /\ printed' = IF o.exc = NoExc /\ args.show_intermediates /\ o.count # 0
                         THEN Append(printed, o.stack[Len(o.stack)])
                         ELSE printed
    /\ UNCHANGED <<calculators, self, record, written, prog, args, last, coerce_number, OPERATORS, to_calculate, result,
                   ncalls, entry_last, last_returned>>

\* The loop body of Calculator.calculate for the next token.
CalcStep ==
    /\ pc = "calc"
    /\ prog = "sink"
    /\ toks # <<>>
    /\ LET it == CalculateIteration(toks, stack, last, coerce_number, OPERATORS)
           o == it.step
       IN  /\ o.exc = NoExc => Representable(o.stack[Len(o.stack)])
           /\ looked_up' = looked_up + it.resolved
           /\ stack' = o.stack
           /\ exc' = o.exc
           /\ IF o.exc = NoExc
              THEN /\ toks' = Tail(toks)
                   /\ pc' = "calc"
                   /\ printed' = IF args.show_intermediates /\ o.count # 0
                                 THEN Append(printed, o.stack[Len(o.stack)])
                                 ELSE printed
              ELSE /\ toks' = toks
                   /\ pc' = "raised"
                   /\ printed' = printed
    /\ UNCHANGED <<calculators, self, record, written, prog, args, last, coerce_number, OPERATORS, to_calculate, result,
                   ncalls, entry_last, last_returned>>

\* After the loop of Calculator.calculate.
CalcFinish ==
    /\ pc = "calc"
    /\ prog = "sink"
    /\ toks = <<>>
    /\ LET o == CalculateEnd(stack, last)
       IN  /\ stack' = o.stack
           /\ exc' = o.exc
           /\ last' = o.last
           /\ result' = o.ret
           /\ pc' = IF o.exc = NoExc THEN "returned" ELSE "raised"
           /\ last_returned' = IF o.exc = NoExc THEN o.ret ELSE last_returned
    /\ UNCHANGED <<calculators, self, record, written, prog, args, coerce_number, OPERATORS, to_calculate, toks, printed,
                   ncalls, entry_last, looked_up>>

\* The locals of a finished loop iteration of main() are dead: the line, the
\* answer, and what calculate printed; no call is running, so the history of
\* the running call is reset.  The list that was calculate's stack is left
\* behind, the next call binds a new one; what it held is kept as one value.
Forget ==
    /\ to_calculate' = <<>>
    /\ toks' = <<>>
    /\ stack' = IF stack = <<>> THEN <<>> ELSE <<Zero>>
    /\ exc' = NoExc
    /\ result' = None
    /\ printed' = <<>>
    /\ looked_up' = 0
    /\ entry_last' = last

\* print(answer), record.write(to_calculate + '\n') and
\* record.write('# ' + str(answer) + '\n').
Answer ==
    /\ pc = "returned"
    /\ prog = "sink"
    /\ record' = Append(record, ncalls)
    /\ written' = [line |-> to_calculate, answer |-> result]
    /\ pc' = "recorded"
    /\ UNCHANGED <<calculators, self, prog, args, last, coerce_number, OPERATORS, to_calculate, toks, stack,
                   exc, result, printed, ncalls, entry_last, last_returned, looked_up>>

\* The loop body is done: back to input().
NextLine ==
    /\ pc = "recorded"
    /\ written' = None
    /\ pc' = "input"
    /\ Forget
    /\ UNCHANGED <<calculators, self, record, prog, args, last, coerce_number, OPERATORS, ncalls,
                   last_returned>>

\* Mutant: the line is written to the record before it is known to evaluate.
ReportRecordsLine ==
    /\ pc = "raised"
    /\ prog = "sink"
    /\ exc.type = "RuntimeError"
    /\ record' = Append(record, ncalls)
    /\ written' = written
    /\ pc' = "input"
    /\ Forget
    /\ UNCHANGED <<calculators, self, prog, args, last, coerce_number, OPERATORS, ncalls, last_returned>>

\* except RuntimeError as e: print("Error:", e), and back to input().
Report ==
    /\ pc = "raised"
    /\ prog = "sink"
    /\ exc.type = "RuntimeError"
    /\ pc' = "input"
    /\ Forget
    /\ UNCHANGED <<calculators, self, record, written, prog, args, last, coerce_number, OPERATORS, ncalls,
                   last_returned>>

\* Any other exception leaves main(): the process ends with a traceback.
Uncaught ==
    /\ pc = "raised"
    /\ prog = "sink"
    /\ exc.type # "RuntimeError"
    /\ pc' = "crashed"
    /\ UNCHANGED <<calculators, self, record, written, prog, args, last, coerce_number, OPERATORS, to_calculate, toks,
                   stack, exc, result, printed, ncalls, entry_last, last_returned,
                   looked_up>>

Next ==
    \/ SkipLine
    \/ Quit
    \/ EndOfInput
    \/ Evaluate
    \/ CalcStep
    \/ CalcFinish
    \/ Answer
    \/ NextLine
    \/ Report
    \/ Uncaught

Spec == Init /\ [][Next]_vars

\* ------------------------------------------------- one call of calculate
\* Values self.last can hold when a call begins: 0 (nothing evaluated yet)
\* and 2.0 (after "4 sqrt").
EntryLasts == {Zero, Num("float", 2, 1)}

\* A call of rpn.calculate, or of calculate on a Calculator or an
\* IntegerCalculator, on any expression.
InitCalc ==
    /\ prog \in {"rpn", "sink"}
    /\ args \in (IF prog = "rpn"
                 THEN {[disable_floats |-> FALSE, show_intermediates |-> FALSE]}
                 ELSE Flags)
    /\ last \in (IF prog = "rpn" THEN {Zero} ELSE EntryLasts)
    /\ coerce_number = ConstructedCoerce(args)
    /\ OPERATORS = ConstructedOperators(args)
    /\ pc = "calc"
    /\ to_calculate \in Expressions
    /\ toks = split(to_calculate)
    /\ stack = <<>>
    /\ exc = NoExc
    /\ result = None
    /\ printed = <<>>
    /\ ncalls = 1
    /\ entry_last = last
    /\ last_returned = last
    /\ looked_up = 0
    /\ record = <<>>
    /\ written = None
    /\ calculators = <<>>
    /\ self = 0

\* The loop body of rpn.calculate for the next token, print(stack) included.
RpnStep ==
    /\ pc = "calc"
    /\ prog = "rpn"
    /\ toks # <<>>
    /\ LET o == RpnToken(Head(toks), stack)
       IN  /\ o.exc = NoExc => Representable(o.stack[Len(o.stack)])
           /\ looked_up' = looked_up + 1
           /\ stack' = o.stack
           /\ exc' = o.exc
           /\ IF o.exc = NoExc
              THEN /\ toks' = Tail(toks)
                   /\ pc' = "calc"
                   /\ printed' = Append(printed, o.stack)
              ELSE /\ toks' = toks
                   /\ pc' = "raised"
                   /\ printed' = printed
    /\ UNCHANGED <<calculators, self, record, written, prog, args, last, coerce_number, OPERATORS, to_calculate, result,
                   ncalls, entry_last, last_returned>>

\* After the loop of rpn.calculate.
RpnFinish ==
    /\ pc = "calc"
    /\ prog = "rpn"
    /\ toks = <<>>
    /\ LET o == RpnEnd(stack)
       IN  /\ stack' = o.stack
           /\ exc' = o.exc
           /\ result' = o.ret
           /\ pc' = IF o.exc = NoExc THEN "returned" ELSE "raised"
    /\ UNCHANGED <<calculators, self, record, written, prog, args, last, coerce_number, OPERATORS, to_calculate, toks,
                   printed, ncalls, entry_last, last_returned, looked_up>>

NextCalc ==
    \/ CalcStep
    \/ CalcFinish
    \/ RpnStep
    \/ RpnFinish

SpecCalc == InitCalc /\ [][NextCalc]_vars

\* Calculator.calculate as a function of the tokens, the stack, self.last and
\* the numeric mode: the exception raised, the value returned, the new last.
RECURSIVE Run(_, _, _, _, _)
Run(ts, stk, self_last, coerce, OPS) ==
    IF ts = <<>>
    THEN LET e == CalculateEnd(stk, self_last)
         IN  [exc |-> e.exc, ret |-> e.ret, last |-> e.last]
    ELSE LET o == CalculateToken(Head(ts), stk, self_last, coerce, OPS)
         IN  IF o.exc # NoExc
             THEN [exc |-> o.exc, ret |-> None, last |-> self_last]
             ELSE Run(Tail(ts), o.stack, self_last, coerce, OPS)

\* ------------------------------------------------- several calculators
MaxCalculators == 2

\* Expressions that tell the numeric modes apart.
Probes ==
    { <<"2", " ", "4", " ", "/">>, <<"4", " ", "2", " ", "/">>,
      <<"2", " ", "-", "3", " ", "/">>, <<"3", ".", "5">>, <<".", " ", "4", " ", "+">> }

\* Calculator.__init__ on a new object.
CalculatorInit ==
    [class |-> "Calculator", last |-> Zero, coerce_number |-> "float",
     OPERATORS |-> FloatOperators]

\* IntegerCalculator.__init__: super().__init__(), then '/' of the object's
\* own OPERATORS and its coerce_number are replaced.
IntegerCalculatorInit ==
    LET super == CalculatorInit
    IN  [super EXCEPT !.class = "IntegerCalculator",
                      !.OPERATORS = [super.OPERATORS EXCEPT ![<<"/">>] = "floordiv"],
                      !.coerce_number = "int"]

\* A program holding calculator objects: none yet.
InitObjects ==
    /\ prog = "sink"
    /\ args = [disable_floats |-> FALSE, show_intermediates |-> FALSE]
    /\ last = Zero
    /\ coerce_number = "float"
    /\ OPERATORS = FloatOperators
    /\ pc = "objects"
    /\ to_calculate = <<>>
    /\ toks = <<>>
    /\ stack = <<>>
    /\ exc = NoExc
    /\ result = None
    /\ printed = <<>>
    /\ ncalls = 0
    /\ entry_last = Zero
    /\ last_returned = Zero
    /\ looked_up = 0
    /\ record = <<>>
    /\ written = None
    /\ calculators = <<>>
    /\ self = 0

\* Mutant: OPERATORS is one dictionary shared by every calculator, so the
\* IntegerCalculator's assignment to '/' reaches all of them.
ConstructShared ==
    /\ Len(calculators) < MaxCalculators
    /\ \E integer \in BOOLEAN :
          calculators' =
              IF integer
              THEN [i \in 1..Len(calculators) + 1 |->
                      IF i <= Len(calculators)
                      THEN [calculators[i] EXCEPT !.OPERATORS = IntegerOperators]
                      ELSE IntegerCalculatorInit]
              ELSE Append(calculators, CalculatorInit)
    /\ UNCHANGED <<prog, args, last, coerce_number, OPERATORS, pc, to_calculate, toks,
                   stack, exc, result, printed, ncalls, entry_last, last_returned,
                   looked_up, record, written, self>>

\* Calculator() or IntegerCalculator().
Construct ==
    /\ Len(calculators) < MaxCalculators
    /\ \E integer \in BOOLEAN :
          calculators' = Append(calculators, IF integer THEN IntegerCalculatorInit
                                             ELSE CalculatorInit)
    /\ UNCHANGED <<prog, args, last, coerce_number, OPERATORS, pc, to_calculate, toks,
                   stack, exc, result, printed, ncalls, entry_last, last_returned,
                   looked_up, record, written, self>>

\* c.calculate(expression) on one of the calculators, from call to return or
\* raise.
CalculateOn ==
    /\ ncalls < MaxCalls
    /\ \E i \in 1..Len(calculators) : \E expression \in Probes :
          LET c == calculators[i]
              o == Run(split(expression), <<>>, c.last, c.coerce_number, c.OPERATORS)
          IN  /\ o.exc = NoExc => Representable(o.ret)
              /\ calculators' = [calculators EXCEPT ![i].last = o.last]
              /\ self' = i
              /\ to_calculate' = expression
              /\ entry_last' = c.last
              /\ exc' = o.exc
              /\ result' = o.ret
    /\ ncalls' = ncalls + 1
    /\ UNCHANGED <<prog, args, last, coerce_number, OPERATORS, pc, toks, stack, printed,
                   last_returned, looked_up, record, written>>

NextObjects ==
    \/ Construct
    \/ CalculateOn

SpecObjects == InitObjects /\ [][NextObjects]_vars

\* ------------------------------------------------------------------ claims
Top(stk) == stk[Len(stk)]

Tokens == split(to_calculate)

Finished == pc \in {"returned", "raised"}

\* What `a tok b` is meant to be, for a token of two operands.
Expected(tok, a, b) ==
    CASE tok = <<"+">> -> add(a, b)
      [] tok = <<"-">> -> sub(a, b)
      [] tok = <<"*">> -> mul(a, b)
      [] tok = <<"/">> -> IF coerce_number = "int" THEN floordiv(a, b) ELSE truediv(a, b)
      [] tok = FMOD -> math_fmod(a, b)

\* C1: in Calculator.calculate a token of arity 2 applied to a stack ending
\* [a, b] pushes a OP b (floor division for / in integer mode), and a
\* two-argument function f pushes f(a, b).
C1_OperandsInPushOrder ==
    [][(/\ pc = "calc" /\ prog = "sink" /\ toks # <<>>
        /\ Head(toks) \in (DOMAIN FloatOperators) \cup {FMOD}
        /\ Len(stack) >= 2
        /\ pc' = "calc")
       => LET e == Expected(Head(toks), stack[Len(stack) - 1], stack[Len(stack)])
          IN  e.exc = NoExc /\ Top(stack') = e.val]_vars

IsIntLiteral(tok) == IntParses(tok)

\* C2: rpn.calculate("a b OP") returns a OP b for integers a, b and OP among
\* + - *, a being the left operand.
C2_RpnLeftToRight ==
    (/\ prog = "rpn" /\ pc = "returned" /\ Len(Tokens) = 3
     /\ IsIntLiteral(Tokens[1]) /\ IsIntLiteral(Tokens[2])
     /\ Tokens[3] \in {<<"+">>, <<"-">>, <<"*">>})
    => LET a == IntValue(Tokens[1]).n
           b == IntValue(Tokens[2]).n
       IN  /\ result.d = 1
           /\ result.n = (CASE Tokens[3] = <<"+">> -> a + b
                            [] Tokens[3] = <<"-">> -> a - b
                            [] Tokens[3] = <<"*">> -> a * b)

\* "4 2 -" has returned 2.
C2_Witness ==
    /\ prog = "rpn" /\ pc = "returned"
    /\ to_calculate = <<"4", " ", "2", " ", "-">>
    /\ result = Num("int", 2, 1)

\* C3: last is what the most recent successful call returned (0 before any),
\* and a call that failed has left it as it was when the call began.
C3_LastIsLastSuccess ==
    /\ last = last_returned
    /\ pc \in {"raised", "crashed"} => last = entry_last

\* A second call has failed after a first one returned a non-zero value.
C3_Witness ==
    /\ pc = "raised" /\ ncalls = 2
    /\ last # Zero /\ last = last_returned

\* C4: once every token is processed, calculate returns iff exactly one value
\* is on the stack, and that value is the return value and the new last;
\* otherwise it raises the malformed-expression error and last is unchanged.
Malformed == IF prog = "rpn" THEN Exc("TypeError", "Too many parameters")
             ELSE Exc("RuntimeError", "Malformed expression")

C4_OneValueLeft ==
    [][(pc = "calc" /\ toks = <<>> /\ pc' # "calc")
       => IF Len(stack) = 1
          THEN /\ pc' = "returned"
               /\ result' = stack[1]
               /\ prog = "sink" => last' = stack[1]
          ELSE /\ pc' = "raised"
               /\ exc' = Malformed
               /\ result' = None
               /\ last' = last]_vars

\* A three-token expression has returned its value, now the last result.
C4_Witness ==
    /\ prog = "sink" /\ pc = "returned" /\ Len(Tokens) = 3
    /\ result = last /\ last # entry_last

\* C5: an evaluation error is reported by main() and the session goes on to
\* read the next line; it never ends the session.
C5_ErrorsNeverEndSession == [][pc = "raised" => pc' = "input"]_vars

\* C6: in integer mode "a 0 /" fails with a division-by-zero error: nothing
\* is returned and last is unchanged.
C6_IntegerDivisionByZero ==
    (/\ prog = "sink" /\ coerce_number = "int" /\ Finished /\ Len(Tokens) = 3
     /\ IsIntLiteral(Tokens[1]) /\ Tokens[2] = <<"0">> /\ Tokens[3] = <<"/">>)
    => /\ pc = "raised"
       /\ exc.type = "ZeroDivisionError"
       /\ result = None
       /\ last = entry_last

\* The operands a token needs, in either program (0 when it resolves to none
\* or to nothing).
Arity(tok) ==
    IF prog = "rpn"
    THEN IF ~IntParses(tok) /\ tok \in DOMAIN operators THEN 2 ELSE 0
    ELSE LET r == lookup(tok, coerce_number, OPERATORS)
         IN  IF r.exc = NoExc THEN r.count ELSE 0

\* C7: a token of arity n > 0 met with fewer than n values on the stack makes
\* the call fail there with the underflow error (IndexError): nothing is
\* returned and nothing is pushed.
C7_Underflow ==
    [][(pc = "calc" /\ toks # <<>> /\ Arity(Head(toks)) > Len(stack))
       => /\ pc' = "raised"
          /\ exc'.type = "IndexError"
          /\ toks' = toks
          /\ result' = None
          /\ Len(stack') <= Len(stack)]_vars

\* "4 +" has failed at + with IndexError.
C7_Witness ==
    /\ pc = "raised" /\ exc.type = "IndexError"
    /\ to_calculate = <<"4", " ", "+">>
    /\ toks = << <<"+">> >>

\* C8: an expression of zero tokens fails with an error of its own, distinct
\* from the malformed-expression error; nothing is returned, last unchanged.
C8_EmptyExpression ==
    (Finished /\ Tokens = <<>>)
    => /\ pc = "raised"
       /\ exc # Malformed
       /\ last = entry_last

\* C9: a `.` token pushes the value last held when the call began, whatever
\* the call has computed so far.
C9_DotIsEntryLast ==
    [][(pc = "calc" /\ prog = "sink" /\ toks # <<>> /\ Head(toks) = DOT)
       => /\ pc' = "calc"
          /\ stack' = Append(stack, entry_last)]_vars

\* With last = L # 0, "4 sqrt ." has ended with the stack [2.0, L], malformed.
C9_Witness ==
    /\ pc = "raised" /\ exc = Malformed /\ prog = "sink"
    /\ Tokens = <<<<"4">>, SQRT, DOT>>
    /\ entry_last # Zero
    /\ stack = <<Num("float", 2, 1), entry_last>>

\* C10: an unknown-token or underflow error is raised at the first offending
\* token: the tokens resolved are exactly those up to it, and the error is
\* that token's ("+ foo": underflow; "foo +", "4 2 foo": unknown token).
Position == Len(Tokens) - Len(toks) + 1

InvalidOperand == Exc("RuntimeError", "Invalid operand")

C10_FirstOffendingToken ==
    /\ (prog = "sink" /\ pc = "calc") => looked_up = Len(Tokens) - Len(toks)
    /\ (prog = "sink" /\ pc = "raised" /\ toks # <<>>)
       => /\ looked_up = Position
          /\ toks = SubSeq(Tokens, Position, Len(Tokens))
          /\ (exc = InvalidOperand) <=> (lookup(Head(toks), coerce_number, OPERATORS).exc # NoExc)
          /\ exc.type = "IndexError" => Arity(Head(toks)) > 0
    /\ (prog = "sink" /\ Finished /\ Tokens = << <<"+">>, <<"f", "o", "o">> >>)
       => exc.type = "IndexError"
    /\ (prog = "sink" /\ Finished /\ Tokens = << <<"f", "o", "o">>, <<"+">> >>)
       => exc = InvalidOperand
    /\ (prog = "sink" /\ Finished /\ Tokens = << <<"4">>, <<"2">>, <<"f", "o", "o">> >>)
       => exc = InvalidOperand

\* "+ foo" has failed at + with the underflow error, foo never resolved.
C10_Witness ==
    /\ prog = "sink" /\ pc = "raised"
    /\ Tokens = << <<"+">>, <<"f", "o", "o">> >>
    /\ exc.type = "IndexError"
    /\ looked_up = 1

\* C11: the stack depth is never negative, and a token processed without
\* error leaves depth = depth before - arity + 1 (arity 0 for a literal and
\* for `.`, 2 for + - * /, 1 or 2 for a named function), in both programs.
C11_StackDepth ==
    [][(pc = "calc" /\ toks # <<>> /\ pc' = "calc")
       => /\ Len(stack) - Arity(Head(toks)) >= 0
          /\ Len(stack') = Len(stack) - Arity(Head(toks)) + 1]_vars

\* "4 2 fmod" is processed: depth 2 before fmod, depth 1 after it.
C11_Witness ==
    /\ pc = "calc" /\ prog = "sink"
    /\ Tokens = << <<"4">>, <<"2">>, FMOD >>
    /\ toks = <<>> /\ Len(stack) = 1

Outcome(expression, self_last) ==
    Run(split(expression), <<>>, self_last, coerce_number, OPERATORS)

HasDot == \E i \in 1..Len(Tokens) : Tokens[i] = DOT

\* C12: what a call of calculate returns or raises, and the last it leaves,
\* depend only on the expression, the numeric mode and last as the call
\* began; without a `.` token not even on last, so the same expression gives
\* the same outcome whatever the session evaluated before, and nothing an
\* earlier call left on its stack reaches a later call.
C12_OutcomeIsAFunction ==
    Finished
    => /\ LET o == Outcome(to_calculate, entry_last)
          IN  exc = o.exc /\ result = o.ret /\ last = o.last
       /\ ~HasDot
          => LET z == Outcome(to_calculate, Zero)
             IN  exc = z.exc /\ result = z.ret

\* A float calculator's second call has returned a value although its first
\* call failed (last is still the int 0 of construction), the first call's
\* stack having been left behind.
C12_Witness ==
    /\ prog = "sink" /\ pc = "returned" /\ ncalls = 2
    /\ coerce_number = "float" /\ entry_last = Zero
    /\ ~HasDot /\ Len(Tokens) = 2

\* The operands the naming rule gives a binary operator or a named function.
NamedArity(tok) ==
    IF tok \in DOMAIN FloatOperators THEN 2
    ELSE IF tok \in {<<"c", "o", "s">>, <<"s", "i", "n">>, <<"t", "a", "n">>,
                     <<"e", "x", "p">>, <<"s", "q", "r", "t">>} THEN 1
    ELSE 2

IsApplied(tok) ==
    IF prog = "rpn" THEN ~IntParses(tok) /\ tok \in DOMAIN operators
    ELSE lookup(tok, coerce_number, OPERATORS).kind \in {"operator", "math"}

C14_ResolutionOrder ==
    [][(pc = "calc" /\ prog = "sink" /\ toks # <<>>)
       => LET tok == Head(toks)
              literal == IF coerce_number = "int" THEN IntParses(tok) ELSE FloatParses(tok)
              unknown == /\ pc' = "raised" /\ exc' = InvalidOperand
                         /\ stack' = stack /\ result' = None
          IN  /\ IF tok = DOT THEN stack' = Append(stack, last)
                 ELSE IF literal
                 THEN stack' = Append(stack, IF coerce_number = "int" THEN IntValue(tok)
                                             ELSE FloatValue(tok))
                 ELSE IF tok \in {<<"+">>, <<"-">>, <<"*">>, <<"/">>}
                 THEN exc' # InvalidOperand /\ (pc' = "calc" => Len(stack') = Len(stack) - 1)
                 ELSE IF tok \in MathFunctions
                 THEN exc' # InvalidOperand
                      /\ (pc' = "calc" => Len(stack') = Len(stack) - NamedArity(tok) + 1)
                 ELSE unknown
              /\ (coerce_number = "int" /\ tok = <<"3", ".", "5">>) => unknown]_vars

\* In integer mode "4 3.5" has failed at 3.5 as an unknown token, the 4 still
\* alone on the stack.
C14_Witness ==
    /\ prog = "sink" /\ coerce_number = "int"
    /\ pc = "raised" /\ exc = InvalidOperand
    /\ toks = << <<"3", ".", "5">> >>
    /\ stack = <<Num("int", 4, 1)>>

\* Whether intermediate values are displayed: the --show-intermediates flag
\* of the kitchen-sink calculator; rpn.py has no switch and always prints.
DisplayEnabled == prog = "rpn" \/ args.show_intermediates

\* C15: with display enabled each operator or function application is
\* followed by exactly one notification carrying the value just pushed, in
\* token order, and a literal push by none; with display disabled nothing is
\* emitted.
C15_Intermediates ==
    [][(pc = "calc" /\ toks # <<>>)
       => IF pc' = "calc" /\ DisplayEnabled /\ IsApplied(Head(toks))
          THEN printed' = Append(printed, Top(stack'))
          ELSE printed' = printed]_vars

\* C16: in floating-point mode a division by zero is no error: the call goes
\* on with one value (an infinity or a NaN) in place of the two operands.
\* The divisor is the second argument of the call, the value popped second.
C16_FloatDivisionByZero ==
    [][(/\ pc = "calc" /\ prog = "sink" /\ coerce_number = "float"
        /\ toks # <<>> /\ Head(toks) = <<"/">>
        /\ Len(stack) >= 2 /\ Popped(stack, 2)[2].n = 0)
       => /\ pc' = "calc"
          /\ exc' = NoExc
          /\ Len(stack') = Len(stack) - 1]_vars

\* C17: a call of calculate ends, returning or raising, after at most one
\* step per token: the token steps taken never outnumber the tokens, and each
\* has consumed exactly the next token (what is left is the expression's
\* tokens minus those taken) unless it ended the call; a call that returned
\* has taken every token once.
C17_Terminates ==
    /\ looked_up <= Len(Tokens)
    /\ pc = "calc" => toks = SubSeq(Tokens, looked_up + 1, Len(Tokens))
    /\ pc = "raised" /\ toks # <<>> => toks = SubSeq(Tokens, looked_up, Len(Tokens))
    /\ pc = "returned" => looked_up = Len(Tokens) /\ toks = <<>>

\* A call on MaxTokens tokens has returned, each token consumed.
C17_Witness ==
    /\ pc = "returned" /\ toks = <<>>
    /\ Len(Tokens) = MaxTokens

\* C18: the record file grows only when a line's evaluation has returned: the
\* line and its answer (the new last) are appended at the end, after the
\* entries of earlier lines.  A line whose evaluation raised, an empty line, a
\* comment line and the quit line write nothing, and an empty or comment line
\* is not evaluated and leaves last as it was.
C18_RecordOnlySuccesses ==
    [][/\ record' # record
          => /\ pc = "returned" /\ exc = NoExc
             /\ record' = Append(record, ncalls)
             /\ record # <<>> => record[Len(record)] < ncalls
             /\ written' = [line |-> to_calculate, answer |-> result]
             /\ result = last
             /\ ~IsComment(to_calculate) /\ ~IsQuit(to_calculate)
       /\ pc = "returned" => record' # record
       /\ pc \in {"raised", "recorded"} => record' = record
       /\ (pc = "input" /\ pc' = "calc")
          => /\ ~IsComment(to_calculate') /\ ~IsQuit(to_calculate')
             /\ record' = record
       /\ (pc = "input" /\ pc' # "calc")
          => /\ pc' \in {"input", "exited"}
             /\ record' = record
             /\ last' = last /\ ncalls' = ncalls /\ stack' = stack]_vars

\* The first line evaluated failed and wrote nothing; the second returned and
\* is the only entry of the record, with its answer.
C18_Witness ==
    /\ pc = "recorded" /\ ncalls = 2
    /\ record = <<2>>
    /\ written = [line |-> <<"4", " ", "s", "q", "r", "t">>, answer |-> Num("float", 2, 1)]

\* The mode a calculator object was constructed with, by its class.
ModeOfClass(c) ==
    IF c.class = "IntegerCalculator"
    THEN c.OPERATORS = IntegerOperators /\ c.coerce_number = "int"
    ELSE c.OPERATORS = FloatOperators /\ c.coerce_number = "float"

\* C19: every calculator has the operator table and the literal coercion of
\* its class (floor division and int for an IntegerCalculator, true division
\* and float for a Calculator), whichever others were constructed before or
\* after it; no construction and no calculate call changes them for any
\* calculator, and each call computes in the mode of its own calculator.
C19_ModePerCalculator ==
    [][/\ Len(calculators') >= Len(calculators)
       /\ \A i \in 1..Len(calculators) :
             /\ calculators'[i].class = calculators[i].class
             /\ calculators'[i].OPERATORS = calculators[i].OPERATORS
             /\ calculators'[i].coerce_number = calculators[i].coerce_number
       /\ \A i \in 1..Len(calculators') : ModeOfClass(calculators'[i])
       /\ ncalls' # ncalls
          => LET integer == calculators[self'].class = "IntegerCalculator"
             IN  /\ to_calculate' = <<"2", " ", "4", " ", "/">>
                    => result' = IF integer THEN Num("int", 2, 1) ELSE Num("float", 2, 1)
                 /\ to_calculate' = <<"2", " ", "-", "3", " ", "/">>
                    => result' = IF integer THEN Num("int", -2, 1) ELSE Num("float", -3, 2)
                 /\ to_calculate' = <<"3", ".", "5">>
                    => IF integer THEN exc' = InvalidOperand /\ result' = None
                       ELSE result' = Num("float", 7, 2)]_vars

\* An IntegerCalculator and a Calculator constructed after it have both
\* evaluated "2 -3 /": -2 by floor division on the first, -1.5 on the second.
C19_Witness ==
    /\ Len(calculators) = 2
    /\ calculators[1].class = "IntegerCalculator" /\ calculators[1].last = Num("int", -2, 1)
    /\ calculators[2].class = "Calculator" /\ calculators[2].last = Num("float", -3, 2)

====
